---- MODULE Spec2Model ----
(***************************************************************************)
(* Model of battery_cycle_count/main.py: the charge log kept by class Base *)
(* (a table read from a csv file, the last row dropped, two derived        *)
(* columns) and the estimators of class Cycles.                            *)
(*                                                                         *)
(* Representation.                                                         *)
(*   - A calendar date is the triple <<year, month, day>>; pandas          *)
(*     Timestamps of the index are held as proleptic Gregorian ordinals,   *)
(*     the value toordinal() gives (0001-01-01 is day 1).                  *)
(*   - A Python float is held as an exact rational <<n, d>> in lowest      *)
(*     terms with d > 0; binary rounding error is not modelled.            *)
(*   - numpy.nan of the days column is NaN (the empty tuple), a number n   *)
(*     is <<n>>.                                                           *)
(*   - The outcome of a call is a record: exc is "none" and val the value  *)
(*     returned, or exc names the exception raised.                        *)
(***************************************************************************)
EXTENDS Integers, Sequences, FiniteSets

\* ------------------------------------------------------------------ bounds
\* Longest hand-written csv table (rows below the header).
MaxRows == 3
\* Rows of the long tables: one full charge (0 -> 100) a day.
BulkRows == 300
\* Largest horizon passed to get_cycle_prediction.
MaxYears == 2

\* ------------------------------------------------------- datetime.date
IsLeap(y) == (y % 4 = 0) /\ ((y % 100 # 0) \/ (y % 400 = 0))

DaysInMonth(y, m) ==
    IF m = 2 THEN (IF IsLeap(y) THEN 29 ELSE 28)
    ELSE IF m \in {4, 6, 9, 11} THEN 30 ELSE 31

RECURSIVE DaysBeforeMonth(_, _)
DaysBeforeMonth(y, m) ==
    IF m = 1 THEN 0 ELSE DaysBeforeMonth(y, m - 1) + DaysInMonth(y, m - 1)

DaysBeforeYear(y) ==
    LET p == y - 1 IN p * 365 + (p \div 4) - (p \div 100) + (p \div 400)

DaysInYear(y) == IF IsLeap(y) THEN 366 ELSE 365

\* date.toordinal()
toordinal(date) ==
    DaysBeforeYear(date[1]) + DaysBeforeMonth(date[1], date[2]) + date[3]

\* date.fromordinal(n), for n >= 1
fromordinal(n) ==
    LET y0 == (n - 1) \div 366 + 1
        y  == CHOOSE y \in y0 .. (y0 + 30) :
                  /\ DaysBeforeYear(y) < n
                  /\ n <= DaysBeforeYear(y) + DaysInYear(y)
        r  == n - DaysBeforeYear(y)
        m  == CHOOSE m \in 1 .. 12 :
                  /\ DaysBeforeMonth(y, m) < r
                  /\ r <= DaysBeforeMonth(y, m) + DaysInMonth(y, m)
    IN  <<y, m, r - DaysBeforeMonth(y, m)>>

\* The ordinals datetime.date can hold: date.min (0001-01-01) to date.max
\* (9999-12-31).
InDateRange(n) == n >= 1 /\ n <= 3652059

\* date + relativedelta(years=years): same month, the day clipped to the
\* length of the month in the new year (29 Feb -> 28 Feb).
AddYears(date, years) ==
    LET y == date[1] + years
        d == IF date[3] > DaysInMonth(y, date[2])
             THEN DaysInMonth(y, date[2]) ELSE date[3]
    IN  <<y, date[2], d>>

\* ------------------------------------------------------------- floats
Abs(n) == IF n < 0 THEN -n ELSE n

RECURSIVE GCD(_, _)
GCD(a, b) == IF b = 0 THEN a ELSE GCD(b, a % b)

\* n/d in lowest terms, d > 0 (d # 0 is the caller's duty)
Rat(n, d) ==
    LET g == GCD(Abs(n), Abs(d))
        s == IF d < 0 THEN -1 ELSE 1
    IN  <<s * (n \div g), s * (d \div g)>>

RatSub(a, b) == Rat(a[1] * b[2] - b[1] * a[2], a[2] * b[2])
RatMul(a, b) == Rat(a[1] * b[1], a[2] * b[2])
RatDiv(a, b) == Rat(a[1] * b[2], a[2] * b[1])
IsZero(a) == a[1] = 0

\* The integer nearest n/d (d > 0), a tie going to the even one.
RoundHalfEven(n, d) ==
    LET f == n \div d
        r == n - f * d
    IN  IF 2 * r < d THEN f
        ELSE IF 2 * r > d THEN f + 1
        ELSE IF f % 2 = 0 THEN f ELSE f + 1

\* round(x, 2)
round2(x) ==
    LET g == GCD(100, x[2])
    IN  Rat(RoundHalfEven(x[1] * (100 \div g), x[2] \div g), 100)

\* int(x): truncation toward zero
int(x) == IF x[1] >= 0 THEN x[1] \div x[2] ELSE -((-x[1]) \div x[2])

\* ------------------------------------------------------------ outcomes
Ok(v) == [exc |-> "none", val |-> v]
Raise(e) == [exc |-> e, val |-> 0]
Raised(r) == r.exc # "none"

NaN == <<>>
Num(n) == <<n>>

\* ------------------------------------------------------ the csv files
\* A csv row is [date, battery_saver, start_percent, end_percent], the date
\* being the text yyyy-mm-dd, here <<yyyy, mm, dd>>.
Row(date, saver, start, end) ==
    [date |-> date, battery_saver |-> saver,
     start_percent |-> start, end_percent |-> end]

\* The table of the class docstring.
Example ==
    << Row(<<2022, 3, 29>>, 0, 0, 70),
       Row(<<2022, 4, 2>>, 1, 25, 50),
       Row(<<2022, 4, 6>>, 1, 29, 50),
       Row(<<2022, 4, 9>>, 1, 30, 50),
       Row(<<2022, 4, 12>>, 1, 34, 60) >>

\* Charges the hand-written tables are made of: battery_saver, start, end.
Charges == { <<0, 0, 70>>, <<1, 49, 50>>, <<1, 60, 40>> }

\* Their dates, in order; a table lists its rows in ascending order of date,
\* and two charges may fall on one day.
DateSeq == << <<2022, 2, 25>>, <<2022, 2, 28>>, <<2022, 3, 3>>, <<2022, 3, 4>> >>

Dates == { DateSeq[i] : i \in 1 .. Len(DateSeq) }

Ascending(t) ==
    \A i \in 1 .. (Len(t) - 1) : toordinal(t[i].date) <= toordinal(t[i + 1].date)

StrictlyAscending(t) ==
    \A i \in 1 .. (Len(t) - 1) : toordinal(t[i].date) < toordinal(t[i + 1].date)

RowSet == { Row(d, c[1], c[2], c[3]) : d \in Dates, c \in Charges }

RECURSIVE SeqsUpTo(_, _)
SeqsUpTo(S, n) ==
    IF n = 0 THEN { <<>> }
    ELSE LET shorter == SeqsUpTo(S, n - 1)
         IN  shorter \cup { Append(t, x) : t \in shorter, x \in S }

\* No more than two charges on one day.
TwoADay(t) ==
    \A i \in 1 .. (Len(t) - 2) : t[i].date # t[i + 2].date

SmallTables == { t \in SeqsUpTo(RowSet, MaxRows) : Ascending(t) /\ TwoADay(t) }

\* A long log: BulkRows full charges, one a day, up to the day before the
\* first of Dates, then two or three more charges on the days that follow.
Bulk ==
    LET first == toordinal(DateSeq[1])
    IN  [i \in 1 .. BulkRows |->
            Row(fromordinal(first - BulkRows + i - 1), 0, 0, 100)]

BulkTails ==
    { u \in SmallTables :
        /\ Len(u) \in {2, 3}
        /\ StrictlyAscending(u)
        /\ u[1].date = DateSeq[1]
        /\ u[2].date = DateSeq[2]
        /\ u[Len(u)].end_percent = 70 }

BulkTables == { Bulk \o t : t \in BulkTails }

ShortTables == SmallTables \cup { Example }

Paths == { "battery.csv", "other.csv" }

\* The three-row table a second file holds.
Other == SubSeq(Example, 1, 3)

\* datetime.date.today() of the session: a leap day and an ordinary day.
Todays == { <<2024, 2, 29>>, <<2026, 11, 3>> }

Years == 1 .. MaxYears

\* ------------------------------------------------------------- class Base
\* pd.read_csv(file, index_col=0, parse_dates=[0]): the date column becomes
\* the index (the row's name).
read_csv(table) ==
    [i \in 1 .. Len(table) |->
        [name |-> toordinal(table[i].date),
         battery_saver |-> table[i].battery_saver,
         start_percent |-> table[i].start_percent,
         end_percent |-> table[i].end_percent]]

\* df.tail(1).index: the labels of the last row (none for an empty frame)
tail_index(d) == IF Len(d) = 0 THEN {} ELSE { d[Len(d)].name }

\* df.drop(labels, inplace=True): every row carrying one of the labels goes
drop(d, labels) == SelectSeq(d, LAMBDA r : r.name \notin labels)

\* Base._create_column_days
create_column_days(d) ==
    [ix \in 1 .. Len(d) |->
        IF ix + 1 <= Len(d) THEN Num(d[ix + 1].name - d[ix].name) ELSE NaN]

\* Base.__init__: the frame self._df holds when the constructor returns
Base_init(table, delete_last_row) ==
    LET read == read_csv(table)
        kept == IF delete_last_row THEN drop(read, tail_index(read)) ELSE read
        days == create_column_days(kept)
    IN  [i \in 1 .. Len(kept) |->
            [name |-> kept[i].name,
             battery_saver |-> kept[i].battery_saver,
             start_percent |-> kept[i].start_percent,
             end_percent |-> kept[i].end_percent,
             percent |-> kept[i].end_percent - kept[i].start_percent,
             days |-> days[i]]]

\* ----------------------------------------------------------- class Cycles
\* df['percent'].sum() over rows lo .. hi, halving the range
RECURSIVE SumPercent(_, _, _)
SumPercent(d, lo, hi) ==
    IF lo > hi THEN 0
    ELSE IF lo = hi THEN d[lo].percent
    ELSE LET mid == (lo + hi) \div 2
         IN  SumPercent(d, lo, mid) + SumPercent(d, mid + 1, hi)

\* get_cycle_count with the first row left out of the sum
get_cycle_count_skip_first(d) == Ok(Rat(SumPercent(d, 2, Len(d)), 100))

\* Cycles.get_cycle_count
get_cycle_count(d) == Ok(Rat(SumPercent(d, 1, Len(d)), 100))

\* get_days counting both end days of the span
get_days_inclusive(d) ==
    IF Len(d) = 0 THEN Raise("IndexError")
    ELSE Ok(d[Len(d)].name - d[1].name + 1)

\* Cycles.get_days: iloc[-1] of an empty frame raises IndexError
get_days(d) ==
    IF Len(d) = 0 THEN Raise("IndexError")
    ELSE Ok(d[Len(d)].name - d[1].name)

\* Cycles.get_daily_cycle: the count is taken first, then the days
get_daily_cycle(d) ==
    LET count == get_cycle_count(d)
        days  == get_days(d)
    IN  IF Raised(days) THEN days
        ELSE IF days.val = 0 THEN Raise("ZeroDivisionError")
        ELSE Ok(round2(RatDiv(count.val, Rat(days.val, 1))))

\* Cycles.get_300_cycles_remaining
get_300_cycles_remaining(d) ==
    Ok(round2(RatSub(Rat(300, 1), get_cycle_count(d).val)))

\* get_300_cycles_days clamped at zero
get_300_cycles_days_clamped(d) ==
    LET remaining == get_300_cycles_remaining(d)
        daily     == get_daily_cycle(d)
        q         == int(RatDiv(remaining.val, daily.val))
    IN  IF Raised(daily) THEN daily
        ELSE IF IsZero(daily.val) THEN Raise("ZeroDivisionError")
        ELSE Ok(IF q < 0 THEN 0 ELSE q)

\* get_300_cycles_days with floor division
get_300_cycles_days_floor(d) ==
    LET remaining == get_300_cycles_remaining(d)
        daily     == get_daily_cycle(d)
        q         == RatDiv(remaining.val, daily.val)
    IN  IF Raised(daily) THEN daily
        ELSE IF IsZero(daily.val) THEN Raise("ZeroDivisionError")
        ELSE Ok(q[1] \div q[2])

\* Cycles.get_300_cycles_days
get_300_cycles_days(d) ==
    LET remaining == get_300_cycles_remaining(d)
        daily     == get_daily_cycle(d)
    IN  IF Raised(daily) THEN daily
        ELSE IF IsZero(daily.val) THEN Raise("ZeroDivisionError")
        ELSE Ok(int(RatDiv(remaining.val, daily.val)))

\* Cycles.get_300_cycles_date
get_300_cycles_date(d, now) ==
    LET days == get_300_cycles_days(d)
    IN  IF Raised(days) THEN days
        ELSE IF ~InDateRange(toordinal(now) + days.val) THEN Raise("OverflowError")
        ELSE Ok(fromordinal(toordinal(now) + days.val))

\* get_cycle_prediction as the rate times the days of the horizon
get_cycle_prediction_intuitive(d, now, years) ==
    LET date  == toordinal(AddYears(now, years)) - toordinal(now)
        daily == get_daily_cycle(d)
    IN  IF Raised(daily) THEN daily
        ELSE Ok(round2(RatMul(Rat(date, 1), daily.val)))

\* Cycles.get_cycle_prediction
get_cycle_prediction(d, now, years) ==
    LET date  == toordinal(AddYears(now, years)) - toordinal(now)
        count == get_cycle_count(d)
        daily == get_daily_cycle(d)
    IN  IF Raised(daily) THEN daily
        ELSE Ok(round2(RatMul(RatSub(Rat(date, 1), count.val), daily.val)))

\* ------------------------------------------------------------------ state
VARIABLES
    disk,    \* path -> the csv table stored there
    today,   \* datetime.date.today()
    ctor,    \* class constructed and the arguments it was given
    _file,   \* self._file
    _df,     \* self._df
    ret      \* the last call: its name, its argument, its outcome, and
             \* whether the call before it was the same one

vars == <<disk, today, ctor, _file, _df, ret>>

Called(op, arg, out) ==
    [op |-> op, arg |-> arg, out |-> out, again |-> (ret.op = op /\ ret.arg = arg)]

\* Cycles(file): Cycles.__init__ passes no delete_last_row, so the default holds
NewCycles == [cls |-> "Cycles", file |-> "battery.csv", delete_last_row |-> TRUE]

\* Base(file, delete_last_row)
NewBase(b) == [cls |-> "Base", file |-> "battery.csv", delete_last_row |-> b]

\* The sessions explored: every short table under every constructor (on
\* every day under Cycles, whose estimators read the day), and the long
\* tables under Cycles.
Sessions ==
    (ShortTables \X { <<2026, 11, 3>> } \X { NewBase(b) : b \in BOOLEAN })
    \cup (ShortTables \X Todays \X { NewCycles })
    \cup (BulkTables \X { <<2026, 11, 3>> } \X { NewCycles })

\* Base(file, delete_last_row) or Cycles(file) has returned.
Init ==
    \E s \in Sessions :
    /\ disk = [p \in Paths |-> IF p = "battery.csv" THEN s[1] ELSE Other]
    /\ today = s[2]
    /\ ctor = s[3]
    /\ _file = ctor.file
    /\ _df = Base_init(disk[ctor.file], ctor.delete_last_row)
    /\ ret = [op |-> "__init__", arg |-> ctor.file, out |-> Ok(0), again |-> FALSE]

\* Base.get_df
GetDf ==
    /\ ret' = Called("get_df", 0, Ok(_df))
    /\ UNCHANGED <<disk, today, ctor, _file, _df>>

\* Base.get_file
GetFile ==
    /\ ret' = Called("get_file", 0, Ok(_file))
    /\ UNCHANGED <<disk, today, ctor, _file, _df>>

\* set_file reading the new file
set_file_reload(file) ==
    /\ _file' = file
    /\ _df' = Base_init(disk[file], ctor.delete_last_row)
    /\ ret' = Called("set_file", file, Ok(0))
    /\ UNCHANGED <<disk, today, ctor>>

\* Base.set_file
set_file(file) ==
    /\ _file' = file
    /\ ret' = Called("set_file", file, Ok(0))
    /\ UNCHANGED <<disk, today, ctor, _df>>

IsCycles == ctor.cls = "Cycles"

GetCycleCount ==
    /\ IsCycles
    /\ ret' = Called("get_cycle_count", 0, get_cycle_count(_df))
    /\ UNCHANGED <<disk, today, ctor, _file, _df>>

GetCyclePrediction(years) ==
    /\ IsCycles
    /\ ret' = Called("get_cycle_prediction", years, get_cycle_prediction(_df, today, years))
    /\ UNCHANGED <<disk, today, ctor, _file, _df>>

GetDailyCycle ==
    /\ IsCycles
    /\ ret' = Called("get_daily_cycle", 0, get_daily_cycle(_df))
    /\ UNCHANGED <<disk, today, ctor, _file, _df>>

\* get_days taking the last row off the frame it reads
GetDays_dropping ==
    /\ IsCycles
    /\ ret' = Called("get_days", 0, get_days(_df))
    /\ _df' = drop(_df, tail_index(_df))
    /\ UNCHANGED <<disk, today, ctor, _file>>

GetDays ==
    /\ IsCycles
    /\ ret' = Called("get_days", 0, get_days(_df))
    /\ UNCHANGED <<disk, today, ctor, _file, _df>>

Get300CyclesDate ==
    /\ IsCycles
    /\ ret' = Called("get_300_cycles_date", 0, get_300_cycles_date(_df, today))
    /\ UNCHANGED <<disk, today, ctor, _file, _df>>

Get300CyclesDays ==
    /\ IsCycles
    /\ ret' = Called("get_300_cycles_days", 0, get_300_cycles_days(_df))
    /\ UNCHANGED <<disk, today, ctor, _file, _df>>

Get300CyclesRemaining ==
    /\ IsCycles
    /\ ret' = Called("get_300_cycles_remaining", 0, get_300_cycles_remaining(_df))
    /\ UNCHANGED <<disk, today, ctor, _file, _df>>

Next ==
    \/ GetDf
    \/ GetFile
    \/ \E file \in Paths : set_file(file)
    \/ GetCycleCount
    \/ \E years \in Years : GetCyclePrediction(years)
    \/ GetDailyCycle
    \/ GetDays
    \/ Get300CyclesDate
    \/ Get300CyclesDays
    \/ Get300CyclesRemaining

Spec == Init /\ [][Next]_vars

\* ----------------------------------------------------------------- claims
\* The table the constructor read.
raw == disk[ctor.file]

Delta(row) == row.end_percent - row.start_percent

\* Whether row i of the frame is row i of the table read.
SameRow(i) ==
    /\ _df[i].name = toordinal(raw[i].date)
    /\ _df[i].battery_saver = raw[i].battery_saver
    /\ _df[i].start_percent = raw[i].start_percent
    /\ _df[i].end_percent = raw[i].end_percent

RECURSIVE DeltaSum(_, _, _)
DeltaSum(t, lo, hi) ==
    IF lo > hi THEN 0
    ELSE IF lo = hi THEN Delta(t[lo])
    ELSE LET mid == (lo + hi) \div 2
         IN  DeltaSum(t, lo, mid) + DeltaSum(t, mid + 1, hi)

\* C1: get_cycle_count returns, without failing, the sum of
\* end_percent - start_percent over exactly the retained rows, divided by
\* 100: the retained rows are the leading rows of the table read, each once,
\* and the last row of a non-empty table is not among them.
C1_TotalIsSumOfRetained ==
    (IsCycles /\ ret.op = "get_cycle_count") =>
        /\ Len(_df) <= Len(raw)
        /\ (Len(raw) > 0 => Len(_df) < Len(raw))
        /\ \A i \in 1 .. Len(_df) : SameRow(i)
        /\ ret.out = Ok(Rat(DeltaSum(raw, 1, Len(_df)), 100))

\* C1 witness: two rows retained, the dropped row carrying a charge of its own
C1_Witness ==
    /\ IsCycles
    /\ ret.op = "get_cycle_count"
    /\ Len(_df) >= 2
    /\ Len(raw) = Len(_df) + 1
    /\ Delta(raw[Len(raw)]) # 0

\* C2 (as claimed): with delete_last_row the frame holds one row less than
\* the non-empty table read, namely all its rows but the last, in order.
C2_DropsExactlyLastRow ==
    (ctor.delete_last_row /\ Len(raw) > 0) =>
        /\ Len(_df) = Len(raw) - 1
        /\ \A i \in 1 .. Len(_df) : SameRow(i)

\* C3 (as claimed): the docstring table gives 4 rows, 1.46 cycles, 11 days
\* and 0.13 cycles a day.
C3_ExampleAsClaimed ==
    (IsCycles /\ raw = Example) =>
        /\ Len(_df) = 4
        /\ (ret.op = "get_cycle_count" => ret.out = Ok(Rat(146, 100)))
        /\ (ret.op = "get_days" => ret.out = Ok(11))
        /\ (ret.op = "get_daily_cycle" => ret.out = Ok(Rat(13, 100)))

\* C3 (amended): the docstring table gives 4 rows, 1.36 cycles
\* ((70 + 25 + 21 + 20) / 100), 11 days and 0.12 cycles a day.
C3_ExampleValues ==
    (IsCycles /\ raw = Example) =>
        /\ Len(_df) = 4
        /\ (ret.op = "get_cycle_count" => ret.out = Ok(Rat(136, 100)))
        /\ (ret.op = "get_days" => ret.out = Ok(11))
        /\ (ret.op = "get_daily_cycle" => ret.out = Ok(Rat(12, 100)))

\* C3 witness: the daily rate of the docstring table has been asked for
C3_Witness ==
    /\ IsCycles
    /\ raw = Example
    /\ ret.op = "get_daily_cycle"
    /\ ~Raised(ret.out)

TwoRowsOneDate(t) == Len(t) = 2 /\ t[1].date = t[2].date

ZeroDaysElapsed == get_days(_df) = Ok(0)

\* C4 (as claimed): when the table read has exactly two rows carrying one
\* date, and whenever the days elapsed are 0, get_daily_cycle fails with
\* ZeroDivisionError and with nothing else.
C4_DailyRateDividesByZero ==
    (IsCycles /\ ret.op = "get_daily_cycle" /\ (TwoRowsOneDate(raw) \/ ZeroDaysElapsed)) =>
        ret.out = Raise("ZeroDivisionError")

\* C4, the part the code keeps: a frame that get_days measures as 0 days (one
\* row, or all rows on one date) makes get_daily_cycle raise
\* ZeroDivisionError.
C4_ZeroDaysDividesByZero ==
    (IsCycles /\ ret.op = "get_daily_cycle" /\ ZeroDaysElapsed) =>
        ret.out = Raise("ZeroDivisionError")

\* ------------------------------------------------ comparisons of floats
IsNeg(a) == a[1] < 0
IsPos(a) == a[1] > 0
Less(a, b) == a[1] * b[2] < b[1] * a[2]
LessEq(a, b) == a[1] * b[2] <= b[1] * a[2]

\* The value in hundredths, for a value that is a whole number of them.
Hundredths(a) == a[1] * (100 \div a[2])

Total == get_cycle_count(_df).val
Remaining == get_300_cycles_remaining(_df).val
Daily == get_daily_cycle(_df)
RatePositive == ~Raised(Daily) /\ IsPos(Daily.val)

\* C5 (as claimed): a total above 300 makes the remaining cycles negative;
\* negative remaining cycles and a positive rate make get_300_cycles_days
\* negative and get_300_cycles_date a date before today.
C5_SignAsClaimed ==
    IsCycles =>
        /\ (Less(Rat(300, 1), Total) => IsNeg(Remaining))
        /\ (IsNeg(Remaining) /\ RatePositive) =>
            /\ (ret.op = "get_300_cycles_days" =>
                    ~Raised(ret.out) /\ ret.out.val < 0)
            /\ (ret.op = "get_300_cycles_date" =>
                    ~Raised(ret.out) /\ toordinal(ret.out.val) < toordinal(today))

\* v is a / b cut toward zero, for a <= 0 < b: the least integer >= a / b.
CutOfNegative(v, a, b) ==
    /\ v <= 0
    /\ LessEq(a, RatMul(Rat(v, 1), b))
    /\ Less(RatMul(Rat(v - 1, 1), b), a)

\* C5 (amended): a total above 300 makes the remaining cycles negative;
\* with negative remaining cycles and a positive rate get_300_cycles_days is
\* their quotient cut toward zero, never clamped: at most 0, and negative
\* exactly when the overshoot is at least one day's rate;
\* get_300_cycles_date is today plus that many days, so on or before today.
C5_SignPropagated ==
    IsCycles =>
        /\ (Less(Rat(300, 1), Total) => IsNeg(Remaining))
        /\ (IsNeg(Remaining) /\ RatePositive) =>
            /\ (ret.op = "get_300_cycles_days" =>
                    /\ ~Raised(ret.out)
                    /\ CutOfNegative(ret.out.val, Remaining, Daily.val)
                    /\ (ret.out.val < 0 <=> LessEq(Daily.val, RatSub(Rat(0, 1), Remaining))))
            /\ (ret.op = "get_300_cycles_date" =>
                    /\ ~Raised(ret.out)
                    /\ CutOfNegative(toordinal(ret.out.val) - toordinal(today),
                                     Remaining, Daily.val)
                    /\ toordinal(ret.out.val) <= toordinal(today))

\* C5 witness: more than 300 cycles, and a projected date in the past
C5_Witness ==
    /\ IsCycles
    /\ Less(Rat(300, 1), Total)
    /\ RatePositive
    /\ ret.op = "get_300_cycles_date"
    /\ ~Raised(ret.out)
    /\ toordinal(ret.out.val) < toordinal(today)

EstimatorOps ==
    { "get_cycle_count", "get_cycle_prediction", "get_daily_cycle", "get_days",
      "get_300_cycles_date", "get_300_cycles_days", "get_300_cycles_remaining" }

\* What estimator op, given arg, returns for frame d on day now.
EstimateOf(op, arg, d, now) ==
    CASE op = "get_cycle_count" -> get_cycle_count(d)
      [] op = "get_cycle_prediction" -> get_cycle_prediction(d, now, arg)
      [] op = "get_daily_cycle" -> get_daily_cycle(d)
      [] op = "get_days" -> get_days(d)
      [] op = "get_300_cycles_date" -> get_300_cycles_date(d, now)
      [] op = "get_300_cycles_days" -> get_300_cycles_days(d)
      [] op = "get_300_cycles_remaining" -> get_300_cycles_remaining(d)

\* The frame the constructor built from the file it was given.
Constructed == Base_init(raw, ctor.delete_last_row)

\* C6: after set_file(p) the path is p and get_file returns it, while the
\* frame get_df returns is still the one the constructor built, never one
\* read from the new path, and an estimator called after the path was
\* changed returns what it returns for the constructed frame.
C6_SetFileOnlySetsPath ==
    /\ _df = Constructed
    /\ (ret.op = "set_file" => _file = ret.arg)
    /\ (ret.op = "get_file" => ret.out = Ok(_file))
    /\ (ret.op = "get_df" => ret.out = Ok(Constructed))
    /\ (ret.op \in EstimatorOps /\ _file # ctor.file) =>
           ret.out = EstimateOf(ret.op, ret.arg, Constructed, today)

\* C6 witness: the path points at the other file, whose table would load
\* differently, and get_df has been called since
C6_Witness ==
    /\ ret.op = "get_df"
    /\ _file = "other.csv"
    /\ ctor.file # "other.csv"
    /\ ret.out.val # Base_init(disk["other.csv"], ctor.delete_last_row)

C7_WitnessFailure ==
    /\ ret.op = "get_daily_cycle"
    /\ ret.again
    /\ Raised(ret.out)

DateLess(a, b) ==
    \/ a[1] < b[1]
    \/ (a[1] = b[1] /\ a[2] < b[2])
    \/ (a[1] = b[1] /\ a[2] = b[2] /\ a[3] < b[3])

\* Calendar days from now to the same date years later: 365 a year and one
\* for each 29 February after now and up to that date.
CalendarDays(now, years) ==
    LET end == AddYears(now, years)
    IN  365 * years
        + Cardinality({ y \in now[1] .. end[1] :
                          /\ IsLeap(y)
                          /\ DateLess(now, <<y, 2, 29>>)
                          /\ ~DateLess(end, <<y, 2, 29>>) })

PositiveSpan == Len(_df) > 0 /\ _df[Len(_df)].name > _df[1].name

\* C8: over a span of at least one day get_cycle_prediction(years) returns a
\* whole number of hundredths, the one nearest to
\* (calendar days of the horizon - total cycles) * daily rate, the rate being
\* the rounded one get_daily_cycle returns.
C8_PredictionIsLiteralFormula ==
    (IsCycles /\ ret.op = "get_cycle_prediction" /\ PositiveSpan) =>
        /\ ~Raised(ret.out)
        /\ 100 % ret.out.val[2] = 0
        /\ LET exact == (100 * CalendarDays(today, ret.arg) - DeltaSum(_df, 1, Len(_df)))
                            * Hundredths(Daily.val)
           IN  Abs(100 * Hundredths(ret.out.val) - exact) <= 50

\* C8 witness: a prediction that the rate times the days of the horizon
\* would not give
C8_Witness ==
    /\ IsCycles
    /\ ret.op = "get_cycle_prediction"
    /\ PositiveSpan
    /\ ~Raised(ret.out)
    /\ ret.out.val # round2(RatMul(Rat(CalendarDays(today, ret.arg), 1), Daily.val))

\* C9 (as claimed): with delete_last_row every retained row's days is the
\* number of days to the next row of the table read, so none is missing;
\* without it only the last row's days is missing.
C9_DaysDefinedForRetained ==
    /\ ctor.delete_last_row =>
           \A i \in 1 .. Len(_df) :
               /\ i < Len(raw)
               /\ _df[i].days = Num(toordinal(raw[i + 1].date) - toordinal(raw[i].date))
    /\ ~ctor.delete_last_row =>
           \A i \in 1 .. Len(_df) :
               _df[i].days = IF i < Len(raw)
                             THEN Num(toordinal(raw[i + 1].date) - toordinal(raw[i].date))
                             ELSE NaN

\* v is a / b cut toward zero (b # 0).
CutTowardZero(v, a, b) ==
    LET n == a[1] * b[2]
        d == b[1] * a[2]
    IN  /\ Abs(v) * Abs(d) <= Abs(n)
        /\ Abs(n) < (Abs(v) + 1) * Abs(d)
        /\ (v > 0 => ((n > 0) <=> (d > 0)))
        /\ (v < 0 => ((n > 0) <=> (d < 0)))

\* C10: over a span of D > 0 days with S hundredths of a cycle in total, the
\* rate is 0 when |S / D| is below half a hundredth and is not 0 when it is
\* above; get_300_cycles_days and get_300_cycles_date raise
\* ZeroDivisionError exactly when the rate is 0, and otherwise return the
\* remaining cycles over the rate, cut toward zero (as days, and as the date
\* that many days from today).
C10_ZeroRateDividesByZero ==
    (IsCycles /\ PositiveSpan) =>
        LET S == DeltaSum(_df, 1, Len(_df))
            D == _df[Len(_df)].name - _df[1].name
        IN  /\ ~Raised(Daily)
            /\ (2 * Abs(S) < D => IsZero(Daily.val))
            /\ (2 * Abs(S) > D => ~IsZero(Daily.val))
            /\ (ret.op = "get_300_cycles_days" =>
                    IF IsZero(Daily.val)
                    THEN ret.out = Raise("ZeroDivisionError")
                    ELSE /\ ~Raised(ret.out)
                         /\ CutTowardZero(ret.out.val, Remaining, Daily.val))
            /\ (ret.op = "get_300_cycles_date" =>
                    IF IsZero(Daily.val)
                    THEN ret.out = Raise("ZeroDivisionError")
                    ELSE /\ ~Raised(ret.out)
                         /\ CutTowardZero(toordinal(ret.out.val) - toordinal(today),
                                          Remaining, Daily.val))

\* C10 witness: a small total that is not zero, a rate of zero, and the
\* division by it failing
C10_Witness ==
    /\ IsCycles
    /\ PositiveSpan
    /\ ~IsZero(Total)
    /\ 2 * Abs(DeltaSum(_df, 1, Len(_df))) < _df[Len(_df)].name - _df[1].name
    /\ ret.op = "get_300_cycles_days"
    /\ ret.out = Raise("ZeroDivisionError")

====
